---- MODULE Spec2Model ----
(***************************************************************************)
(* Model of ar_file.ArInfo: the 60-byte ar member header codec.            *)
(*                                                                         *)
(* Text is a sequence of one-character tokens, a byte string a sequence of *)
(* byte tokens.  An ASCII character and its byte share a token ("0x60" is   *)
(* the grave accent, "0x0A" the line feed); the one                        *)
(* non-ASCII character of the model, "U+00E9", is the two bytes "0xC3",    *)
(* "0xA9" in UTF-8.  The codec is modelled with its default arguments      *)
(* encoding='utf-8', errors='strict'.                                      *)
(***************************************************************************)
EXTENDS Integers, Sequences, FiniteSets, TLC

VARIABLES
    rec,        \* the ArInfo object tobuf is called on
    table,      \* the container's filename table (names, in saving order)
    buf,        \* the value the caller holds and hands to frombuf
    last,       \* the last call: which, its arguments, how it ended
    info_obj,   \* the object frombuf built (its local info_obj), or None
    calls       \* the container calls the last call made, in order

vars == <<rec, table, buf, last, info_obj, calls>>

\* ------------------------------------------------------------- constants

GNU_FORMAT == 1
BSD_FORMAT == 2
DEFAULT_FORMAT == GNU_FORMAT

None == [type |-> "NoneType"]

\* a reference to the container (an ArFile); its state is the variable table
ArFile == [type |-> "ArFile"]

Bytes(data) == [type |-> "bytes", data |-> data]

\* ------------------------------------------------------------------ text

Rep(c, n) == [i \in 1..n |-> c]

\* the header terminator '\x60\x0a'
Terminator == <<"0x60", "0x0A">>

\* what str.strip and int() skip: the space and the line feed
IsSpace(c) == c \in {" ", "0x0A"}

\* str.ljust(width): pad with spaces on the right, never truncate
ljust(s, width) == IF Len(s) >= width THEN s ELSE s \o Rep(" ", width - Len(s))

RECURSIVE rstrip(_)
rstrip(s) ==
    IF s = <<>> THEN <<>>
    ELSE IF IsSpace(s[Len(s)]) THEN rstrip(SubSeq(s, 1, Len(s) - 1))
    ELSE s

RECURSIVE lstrip(_)
lstrip(s) ==
    IF s = <<>> THEN <<>>
    ELSE IF IsSpace(Head(s)) THEN lstrip(Tail(s))
    ELSE s

strip(s) == lstrip(rstrip(s))

\* s[i:j] of Python, 0-based, j exclusive, indexes clamped, negative from the end
Clamp(i, n) == IF i < 0 THEN (IF n + i < 0 THEN 0 ELSE n + i) ELSE (IF i > n THEN n ELSE i)

Slice(s, i, j) == SubSeq(s, Clamp(i, Len(s)) + 1, Clamp(j, Len(s)))

\* s[i:]
SliceFrom(s, i) == Slice(s, i, Len(s))

startswith(s, p) == Len(s) >= Len(p) /\ SubSeq(s, 1, Len(p)) = p

\* --------------------------------------------------------- str <-> bytes

EncodeChar(c) == IF c = "U+00E9" THEN <<"0xC3", "0xA9">> ELSE <<c>>

\* str.encode('utf-8', 'strict'): ASCII text is its own encoding, every
\* non-ASCII character becomes its two bytes
RECURSIVE Encode(_)
Encode(text) ==
    LET wide == {i \in 1..Len(text) : text[i] = "U+00E9"}
    IN  IF wide = {} THEN text
        ELSE LET k == CHOOSE i \in wide : \A j \in wide : i <= j
             IN  SubSeq(text, 1, k - 1) \o EncodeChar(text[k])
                     \o Encode(SubSeq(text, k + 1, Len(text)))

\* bytes.decode('utf-8', 'strict'): ok = FALSE stands for UnicodeDecodeError.
\* A lead byte must be followed by its continuation byte, a continuation byte
\* must follow a lead byte; each such pair is one character.
IsLeadOrSingle(b) == b # "0xA9"

Decode(data) ==
    LET valid == \A i \in 1..Len(data) :
                    /\ data[i] = "0xC3" => (i < Len(data) /\ data[i + 1] = "0xA9")
                    /\ data[i] = "0xA9" => (i > 1 /\ data[i - 1] = "0xC3")
        kept == SelectSeq(data, IsLeadOrSingle)
    IN  IF valid
        THEN [ok |-> TRUE,
              text |-> [i \in 1..Len(kept) |->
                           IF kept[i] = "0xC3" THEN "U+00E9" ELSE kept[i]]]
        ELSE [ok |-> FALSE, text |-> <<>>]

\* ------------------------------------------------------ integers as text

Digits == <<"0", "1", "2", "3", "4", "5", "6", "7", "8", "9">>

IsDigit(c, base) == \E i \in 1..base : Digits[i] = c

DigitVal(c) == (CHOOSE i \in 1..10 : Digits[i] = c) - 1

\* the digits of n >= 0 in the base
RECURSIVE ToBase(_, _)
ToBase(n, base) ==
    IF n < base THEN <<Digits[n + 1]>>
    ELSE ToBase(n \div base, base) \o <<Digits[(n % base) + 1]>>

\* '{:<Wd}'.format(n) and '{:<Wo}'.format(n): sign, digits, left-justified
FormatInt(n, base, width) ==
    ljust(IF n < 0 THEN <<"-">> \o ToBase(-n, base) ELSE ToBase(n, base), width)

\* the value of a sequence of digits and underscores
RECURSIVE DigitsValue(_, _, _)
DigitsValue(s, base, acc) ==
    IF s = <<>> THEN acc
    ELSE IF Head(s) = "_" THEN DigitsValue(Tail(s), base, acc)
    ELSE DigitsValue(Tail(s), base, acc * base + DigitVal(Head(s)))

\* digits, single underscores between them; after a base prefix one may lead
WellFormedDigits(s, base, prefixed) ==
    /\ s # <<>>
    /\ \A i \in 1..Len(s) : IsDigit(s[i], base) \/ s[i] = "_"
    /\ IsDigit(s[Len(s)], base)
    /\ (prefixed \/ IsDigit(s[1], base))
    /\ \A i \in 1..(Len(s) - 1) : ~(s[i] = "_" /\ s[i + 1] = "_")

\* int(value, base): ok = FALSE stands for ValueError
PyInt(value, base) ==
    LET t == strip(value)
        signed == t # <<>> /\ t[1] \in {"+", "-"}
        u == IF signed THEN Tail(t) ELSE t
        prefixed == base = 8 /\ Len(u) >= 2 /\ u[1] = "0" /\ u[2] \in {"o", "O"}
        d == IF prefixed THEN SubSeq(u, 3, Len(u)) ELSE u
    IN  IF WellFormedDigits(d, base, prefixed)
        THEN [ok |-> TRUE,
              val |-> IF signed /\ t[1] = "-" THEN 0 - DigitsValue(d, base, 0)
                      ELSE DigitsValue(d, base, 0)]
        ELSE [ok |-> FALSE, val |-> 0]

\* ------------------------------------------------------------- container
\* The ArFile class of the source is an empty stub; save_filename and
\* read_filename follow the collaborator interface of the specification:
\* names are appended to the table, each followed by one separator byte, and
\* addressed by the byte offset at which they start.

RECURSIVE TableSize(_)
TableSize(tbl) ==
    IF tbl = <<>> THEN 0
    ELSE TableSize(SubSeq(tbl, 1, Len(tbl) - 1)) + Len(Encode(tbl[Len(tbl)])) + 1

save_filename(tbl, name) ==
    [table |-> Append(tbl, name), offset |-> TableSize(tbl)]

\* ok = FALSE: no name starts at the offset, the container fails loudly
read_filename(tbl, offset) ==
    LET at == {i \in 1..Len(tbl) : TableSize(SubSeq(tbl, 1, i - 1)) = offset}
    IN  IF at = {} THEN [ok |-> FALSE, name |-> <<>>]
        ELSE [ok |-> TRUE, name |-> tbl[CHOOSE i \in at : TRUE]]

\* ---------------------------------------------------------------- ArInfo

\* ArInfo.__init__(name)
ArInfo(name) ==
    [type |-> "ArInfo", name |-> name, mtime |-> 0, uid |-> 0, gid |-> 0,
     mode |-> 420, size |-> 0,
     _parent |-> None, _inline_name |-> FALSE, _inline_filename |-> "unset"]

\* how a call ends: a returned value or a raised exception, the new value of
\* self._inline_name, the container calls made and the table they leave
Returned(value, inline, made, tbl) ==
    [raised |-> FALSE, exc |-> "", kind |-> "", field |-> "", value |-> value,
     inline_name |-> inline, calls |-> made, table |-> tbl, info |-> None]

Raised(exc, kind, field, inline, made, tbl) ==
    [raised |-> TRUE, exc |-> exc, kind |-> kind, field |-> field, value |-> None,
     inline_name |-> inline, calls |-> made, table |-> tbl, info |-> None]

_append_common_data(self) ==
    FormatInt(self.mtime, 10, 12)
        \o FormatInt(self.uid, 10, 6)
        \o FormatInt(self.gid, 10, 6)
        \o FormatInt(self.mode, 8, 8)
        \o FormatInt(self.size, 10, 10)
        \o Terminator

\* the BSD name branch with the boundary at 15 instead of 16
_create_bsd_format_lt16(self, tbl) ==
    IF Len(self.name) < 16
    THEN Returned(Bytes(Encode(ljust(self.name, 16) \o _append_common_data(self))),
                  self._inline_name, <<>>, tbl)
    ELSE Returned(Bytes(Encode(ljust(<<"#", "1", "/">> \o ToBase(Len(self.name), 10), 16)
                               \o _append_common_data(self))),
                  TRUE, <<>>, tbl)

_create_bsd_format(self, tbl) ==
    IF Len(self.name) <= 16
    THEN Returned(Bytes(Encode(ljust(self.name, 16) \o _append_common_data(self))),
                  self._inline_name, <<>>, tbl)
    ELSE Returned(Bytes(Encode(ljust(<<"#", "1", "/">> \o ToBase(Len(self.name), 10), 16)
                               \o _append_common_data(self))),
                  TRUE, <<>>, tbl)

\* the GNU name branch without the container check: a long name with no
\* container is cut to the inline width
_create_gnu_format_unchecked(self, tbl) ==
    IF Len(self.name) <= 15 \/ self._parent = None
    THEN Returned(Bytes(Encode(ljust(Slice(self.name, 0, 15) \o <<"/">>, 16)
                               \o _append_common_data(self))),
                  self._inline_name, <<>>, tbl)
    ELSE LET saved == save_filename(tbl, self.name)
         IN  Returned(Bytes(Encode(ljust(<<"/">> \o FormatInt(saved.offset, 10, 0), 16)
                                   \o _append_common_data(self))),
                      self._inline_name,
                      <<[call |-> "save_filename", name |-> self.name, offset |-> saved.offset]>>,
                      saved.table)

\* the GNU name branch saving every name of a record that has a container
_create_gnu_format_saves_all(self, tbl) ==
    IF self._parent = None
    THEN IF Len(self.name) <= 15
         THEN Returned(Bytes(Encode(ljust(self.name \o <<"/">>, 16)
                                    \o _append_common_data(self))),
                       self._inline_name, <<>>, tbl)
         ELSE Raised("EncodingError", "extended filename", "", self._inline_name, <<>>, tbl)
    ELSE LET saved == save_filename(tbl, self.name)
         IN  Returned(Bytes(Encode(ljust(<<"/">> \o FormatInt(saved.offset, 10, 0), 16)
                                   \o _append_common_data(self))),
                      self._inline_name,
                      <<[call |-> "save_filename", name |-> self.name, offset |-> saved.offset]>>,
                      saved.table)

_create_gnu_format(self, tbl) ==
    IF Len(self.name) <= 15
    THEN Returned(Bytes(Encode(ljust(self.name \o <<"/">>, 16)
                               \o _append_common_data(self))),
                  self._inline_name, <<>>, tbl)
    ELSE IF self._parent = None
    THEN Raised("EncodingError", "extended filename", "", self._inline_name, <<>>, tbl)
    ELSE LET saved == save_filename(tbl, self.name)
         IN  Returned(Bytes(Encode(ljust(<<"/">> \o FormatInt(saved.offset, 10, 0), 16)
                                   \o _append_common_data(self))),
                      self._inline_name,
                      <<[call |-> "save_filename", name |-> self.name, offset |-> saved.offset]>>,
                      saved.table)

\* ArInfo.tobuf(format)
tobuf(self, format, tbl) ==
    IF format = BSD_FORMAT THEN _create_bsd_format(self, tbl)
    ELSE IF format = GNU_FORMAT THEN _create_gnu_format(self, tbl)
    ELSE Returned([type |-> "EncodingError"], self._inline_name, <<>>, tbl)

\* frombuf's local function parse_int(field, value, base)
parse_int(field, value, base) ==
    LET r == PyInt(value, base) IN [ok |-> r.ok, val |-> r.val, field |-> field]

\* frombuf from the name detection on (lines 125-153): text is the decoded
\* buffer, name the trimmed name field, obj the object built from the fields.
\* The function ends without a return statement: a call that does not raise
\* returns None, and the object it built stays in its local info_obj.
resolve_name(text, name, obj, arfile, tbl) ==
    LET special == startswith(name, <<"/">>) \/ startswith(name, <<"#", "1", "/">>)
        inline == startswith(name, <<"#", "1", "/">>)
        marked == IF special
                  THEN [obj EXCEPT !._inline_filename = IF inline THEN "True" ELSE "False"]
                  ELSE obj
    IN  IF special /\ inline
        THEN LET length == PyInt(SliceFrom(name, 3), 10)
             IN  IF ~length.ok
                 THEN Raised("HeaderError", "invalid filename", "", FALSE, <<>>, tbl)
                 ELSE IF Len(text) >= 60 + length.val
                 THEN [Returned(None, FALSE, <<>>, tbl) EXCEPT
                          !.info = [marked EXCEPT !.name = Slice(text, 60, 60 + length.val)]]
                 ELSE [Returned(None, FALSE, <<>>, tbl) EXCEPT !.info = marked]
        ELSE IF special
        THEN LET offset == PyInt(SliceFrom(name, 1), 10)
             IN  IF ~offset.ok
                 THEN Raised("HeaderError", "invalid filename", "", FALSE, <<>>, tbl)
                 ELSE IF arfile = None
                 THEN Raised("HeaderError", "missing container", "", FALSE, <<>>, tbl)
                 ELSE LET got == read_filename(tbl, offset.val)
                          made == <<[call |-> "read_filename", name |-> got.name,
                                     offset |-> offset.val]>>
                      IN  IF ~got.ok
                          THEN Raised("ContainerError", "invalid offset", "", FALSE, made, tbl)
                          ELSE [Returned(None, FALSE, made, tbl) EXCEPT
                                   !.info = [marked EXCEPT !.name = got.name]]
        ELSE [Returned(None, FALSE, <<>>, tbl) EXCEPT !.info = marked]

\* the terminator check with the slice one character short
terminator_ok_short_slice(text) == Slice(text, 58, 59) = <<"0x60">>

\* the terminator check of frombuf, on the decoded buffer
terminator_ok(text) == Slice(text, 58, 60) = Terminator

\* ArInfo.frombuf(buf, arfile)
frombuf(b, arfile, tbl) ==
    IF b.type # "bytes"
    THEN Raised("HeaderError", "invalid type", "", FALSE, <<>>, tbl)
    ELSE LET decoded == Decode(b.data) IN
    IF ~decoded.ok
    THEN Raised("UnicodeDecodeError", "", "", FALSE, <<>>, tbl)
    ELSE LET text == decoded.text IN
    IF Len(text) < 60
    THEN Raised("HeaderError", "too short", "", FALSE, <<>>, tbl)
    ELSE LET name == rstrip(Slice(text, 0, 16))
             mtime == parse_int("mtime", Slice(text, 16, 28), 10)
             uid == parse_int("uid", Slice(text, 28, 34), 10)
             gid == parse_int("gid", Slice(text, 34, 40), 10)
             mode == parse_int("file mode", Slice(text, 40, 48), 8)
             size == parse_int("size", Slice(text, 48, 58), 8)
             fields == <<mtime, uid, gid, mode, size>>
             bad == {i \in 1..5 : ~fields[i].ok}
         IN
    IF bad # {}
    THEN Raised("HeaderError", "invalid numeric field",
                fields[CHOOSE i \in bad : \A j \in bad : i <= j].field, FALSE, <<>>, tbl)
    ELSE IF ~terminator_ok(text)
    THEN Raised("HeaderError", "invalid terminator", "", FALSE, <<>>, tbl)
    ELSE resolve_name(text, name,
                      [ArInfo(name) EXCEPT !.mtime = mtime.val, !.uid = uid.val,
                                           !.gid = gid.val, !.mode = mode.val,
                                           !.size = size.val, !._parent = arfile],
                      arfile, tbl)

\* ---------------------------------------------------------------- inputs

MaxNameLen == 17
MaxTable == 2

T1(a) == <<a>>
T2(a, b) == <<a, b>>
T3(a, b, c) == <<a, b, c>>

\* the names of the members: every length around the two boundaries, the
\* empty name, names with a slash, a space, a trailing space, a non-ASCII letter
Names ==
    {Rep("a", n) : n \in {0, 1} \cup (14..MaxNameLen)}
        \cup {T1("/"), T3("a", "/", "b"), T3("a", " ", "b"), T2("a", " "), T1("U+00E9")}

\* a name some other member saved in the container before
OtherName == Rep("b", 20)

\* the objects a producer builds: ArInfo(name), then its attributes assigned
Records ==
    {[ArInfo(n) EXCEPT !.mtime = mt, !.uid = u, !.gid = g, !.mode = mo, !.size = sz,
                       !._parent = p] :
        n \in Names, mt \in {0, 1700000000}, u \in {0, 1000000}, g \in {0, 100},
        mo \in {420, 16777216}, sz \in {0, 8, 1024}, p \in {None, ArFile}}

\* header buffers as an archive may hold them, field by field
Field(text, width) == Encode(ljust(text, width))

NameFields ==
    {Field(t, 16) : t \in
        {T1("a"), T2("a", "/"), T1("/"), T2("/", "0"), T3("/", "2", "1"), T2("/", "x"),
         T3("/", "-", "3"), <<"#", "1", "/", "3">>, <<"#", "1", "/", "2", "0">>,
         <<"#", "1", "/", "x">>, <<"#", "1", "/", "-", "5">>, <<"#", "1", "/">>}}

MtimeFields == {Field(t, 12) : t \in {T1("0"), T1("x")}}

UidFields ==
    {Field(t, 6) : t \in
        {T1("0"), T2("-", "5"), T2("+", "5"), T3("1", "_", "0"), T3("a", "b", "c"),
         T3("1", " ", "2"), <<>>}}

GidFields == {Field(t, 6) : t \in {T1("0"), T1("g")}}

ModeFields == {Field(t, 8) : t \in {T3("6", "4", "4"), T1("9"), T3("0", "o", "7")}}

SizeFields == {Field(t, 10) : t \in {T1("0"), T1("8")}}

Terminators == {Terminator, T2("0x60", " ")}

Tails == {<<>>, OtherName}

Headers ==
    {n \o mt \o u \o g \o mo \o sz \o tm \o tl :
        n \in NameFields, mt \in MtimeFields, u \in UidFields, g \in GidFields,
        mo \in ModeFields, sz \in SizeFields, tm \in Terminators, tl \in Tails}

\* buffers that are no 60 characters of text, and a value that is no bytes
Malformed ==
    {Bytes(Rep(" ", 59)),
     Bytes(<<"0xC3", "0xA9">> \o Rep(" ", 56) \o Terminator),
     Bytes(<<"0xC3", "0xA9">> \o Rep(" ", 56) \o T2("0x60", " ")),
     Bytes(<<"0xA9">> \o Rep(" ", 57) \o T2("0x60", " ")),
     None}

Formats == {GNU_FORMAT, BSD_FORMAT, GNU_FORMAT + BSD_FORMAT}

NoCall ==
    [op |-> "none", format |-> 0, arfile |-> None, arg |-> None, raised |-> FALSE,
     exc |-> "", kind |-> "", field |-> "", value |-> None, origin |-> 0]

\* ----------------------------------------------------------------- state

Init ==
    /\ rec \in Records
    /\ table \in {<<>>, <<OtherName>>}
    /\ buf = None
    /\ last = NoCall
    /\ info_obj = None
    /\ calls = <<>>

\* a call of rec.tobuf(format); the caller keeps what it returns
Tobuf(format) ==
    \E r \in {tobuf(rec, format, table)} :
        /\ Len(r.table) <= MaxTable
        /\ rec' = [rec EXCEPT !._inline_name = r.inline_name]
        /\ table' = r.table
        /\ buf' = IF r.raised THEN buf ELSE r.value
        /\ last' = [op |-> "tobuf", format |-> format, arfile |-> rec._parent,
                    arg |-> None, raised |-> r.raised, exc |-> r.exc, kind |-> r.kind,
                    field |-> r.field, value |-> r.value,
                    origin |-> IF r.raised THEN last.origin ELSE format]
        /\ calls' = r.calls
        /\ UNCHANGED info_obj

\* a call of ArInfo.frombuf(buf, arfile): the caller hands over the header it
\* holds, alone or followed by the member's name, the bytes that come after
\* a BSD header in the archive
Frombuf(arfile, payload) ==
    LET tail == IF payload THEN Encode(rec.name) ELSE <<>>
        b == IF buf.type = "bytes" THEN Bytes(buf.data \o tail) ELSE buf
    IN \E r \in {frombuf(b, arfile, table)} :
        /\ info_obj' = r.info
        /\ table' = r.table
        /\ last' = [op |-> "frombuf", format |-> 0, arfile |-> arfile,
                    arg |-> b, raised |-> r.raised, exc |-> r.exc, kind |-> r.kind,
                    field |-> r.field, value |-> r.value, origin |-> last.origin]
        /\ calls' = r.calls
        /\ UNCHANGED <<rec, buf>>

Next ==
    \/ \E format \in Formats : Tobuf(format)
    \/ \E arfile \in {None, ArFile}, payload \in BOOLEAN : Frombuf(arfile, payload)

Spec == Init /\ [][Next]_vars

\* the decoder on the headers of an archive: the caller holds a buffer read
\* from it and a freshly constructed object
InitFrombuf ==
    /\ rec = ArInfo(<<>>)
    /\ table \in {<<>>, <<OtherName>>}
    /\ buf \in {Bytes(h) : h \in Headers} \cup Malformed
    /\ last = NoCall
    /\ info_obj = None
    /\ calls = <<>>

SpecFrombuf == InitFrombuf /\ [][Next]_vars

\* ---------------------------------------------------------------- claims

\* the last call was frombuf on a byte string that decodes to text
FrombufOnText ==
    /\ last.op = "frombuf"
    /\ last.arg.type = "bytes"
    /\ Decode(last.arg.data).ok

ArgText == Decode(last.arg.data).text

\* the last call was frombuf on exactly what rec.tobuf(format=GNU) returned
GnuRoundTrip ==
    /\ last.op = "frombuf"
    /\ last.origin = GNU_FORMAT
    /\ last.arg = buf

\* the last call was tobuf and it returned header bytes
TobufReturnedBytes ==
    /\ last.op = "tobuf"
    /\ ~last.raised
    /\ last.value.type = "bytes"

Pad16(text) == text \o Rep(" ", 16 - Len(text))

\* C1: GNU round trip of a short name: frombuf on the bytes tobuf(GNU)
\* returned for a record with a name of at most 15 characters and numeric
\* fields that fit their widths completes and yields a record with the same
\* name, mtime, uid, gid, mode and size.  (Every mtime and size of the model
\* fits its field.)
C1_GnuRoundTripShort ==
    (/\ GnuRoundTrip
     /\ Len(rec.name) <= 15
     /\ rec.uid < 1000000 /\ rec.gid < 1000000 /\ rec.mode < 16777216)
    => /\ ~last.raised
       /\ info_obj.type = "ArInfo"
       /\ info_obj.name = rec.name
       /\ info_obj.mtime = rec.mtime
       /\ info_obj.uid = rec.uid
       /\ info_obj.gid = rec.gid
       /\ info_obj.mode = rec.mode
       /\ info_obj.size = rec.size

\* C2: GNU round trip of an extended name: for a record with a name longer
\* than 15 characters and a container, frombuf with that container on the
\* bytes tobuf(GNU) returned completes and yields a record with the
\* original name.
C2_GnuRoundTripExtended ==
    (/\ GnuRoundTrip
     /\ Len(rec.name) > 15
     /\ rec._parent = ArFile
     /\ last.arfile = ArFile)
    => /\ ~last.raised
       /\ info_obj.type = "ArInfo"
       /\ info_obj.name = rec.name

\* C3: whenever tobuf succeeds in GNU or BSD format, the bytes it returns
\* are exactly 60 long.
C3_SixtyBytes ==
    (TobufReturnedBytes /\ last.format \in {GNU_FORMAT, BSD_FORMAT})
    => Len(last.value.data) = 60

\* the 60-byte buffers whose last two bytes are not the terminator
BadTerminatorArg ==
    /\ last.op = "frombuf"
    /\ last.arg.type = "bytes"
    /\ Len(last.arg.data) = 60
    /\ SubSeq(last.arg.data, 59, 60) # Terminator

\* the numeric fields of the text, in the order frombuf reads them
NumericFields(text) ==
    <<[field |-> "mtime", ok |-> PyInt(Slice(text, 16, 28), 10).ok],
      [field |-> "uid", ok |-> PyInt(Slice(text, 28, 34), 10).ok],
      [field |-> "gid", ok |-> PyInt(Slice(text, 34, 40), 10).ok],
      [field |-> "file mode", ok |-> PyInt(Slice(text, 40, 48), 8).ok],
      [field |-> "size", ok |-> PyInt(Slice(text, 48, 58), 8).ok]>>

\* C4 as claimed: every 60-byte buffer whose last two bytes are not the
\* terminator fails with the bad-terminator HeaderError, whatever the other
\* fields hold.
C4_TerminatorAlways ==
    BadTerminatorArg
    => /\ last.raised
       /\ last.exc = "HeaderError"
       /\ last.kind = "invalid terminator"

\* C4 as amended: every 60-byte buffer whose last two bytes are not the
\* terminator fails and no record is built; the failure is the
\* bad-terminator HeaderError exactly when the buffer is 60 characters of
\* text whose five numeric fields all parse, and otherwise the error of the
\* earlier check: the decoding error, the too-short HeaderError, or the
\* invalid-numeric-field HeaderError naming the first field that does not
\* parse.
C4_TerminatorAfterFields ==
    BadTerminatorArg
    => /\ last.raised
       /\ info_obj = None
       /\ IF ~Decode(last.arg.data).ok
          THEN last.exc = "UnicodeDecodeError"
          ELSE /\ last.exc = "HeaderError"
               /\ IF Len(ArgText) < 60
                  THEN last.kind = "too short"
                  ELSE LET f == NumericFields(ArgText)
                           bad == {i \in 1..5 : ~f[i].ok}
                       IN  IF bad = {}
                           THEN last.kind = "invalid terminator"
                           ELSE /\ last.kind = "invalid numeric field"
                                /\ \E i \in bad : /\ \A j \in bad : i <= j
                                                  /\ last.field = f[i].field

\* a buffer with a wrong terminator and five well-formed numeric fields was
\* rejected for its terminator
C4_Witness ==
    /\ BadTerminatorArg
    /\ Decode(last.arg.data).ok
    /\ Len(ArgText) = 60
    /\ \A i \in 1..5 : NumericFields(ArgText)[i].ok
    /\ last.raised
    /\ last.kind = "invalid terminator"

\* the trimmed 16-character name field of frombuf's argument
ArgNameField == rstrip(Slice(ArgText, 0, 16))

IsToken(name) == startswith(name, <<"/">>) \/ startswith(name, <<"#", "1", "/">>)

\* C5: whenever frombuf completes without raising, the name of the record
\* it built is resolved: it is not the '/<offset>' or '#1/<length>' token
\* of the name field.
C5_NameResolved ==
    (FrombufOnText /\ ~last.raised /\ IsToken(ArgNameField))
    => /\ info_obj.type = "ArInfo"
       /\ info_obj.name # ArgNameField

\* the name field of the header tobuf returned
RetNameField == Slice(Decode(last.value.data).text, 0, 16)

\* C6: the length boundaries of tobuf.  BSD: a name of at most 16
\* characters is written literally, space-padded to 16, a longer one as
\* '#1/<length>'.  GNU: a name of at most 15 characters is written as
\* name + '/', space-padded to 16, a longer one as '/<offset>' with the
\* offset save_filename returned.
C6_LengthBoundaries ==
    TobufReturnedBytes
    => /\ (last.format = BSD_FORMAT /\ Len(rec.name) <= 16)
            => RetNameField = Pad16(rec.name)
       /\ (last.format = BSD_FORMAT /\ Len(rec.name) >= 17)
            => RetNameField = Pad16(<<"#", "1", "/">> \o ToBase(Len(rec.name), 10))
       /\ (last.format = GNU_FORMAT /\ Len(rec.name) <= 15)
            => RetNameField = Pad16(rec.name \o <<"/">>)
       /\ (last.format = GNU_FORMAT /\ Len(rec.name) >= 16)
            => /\ Len(calls) = 1
               /\ calls[1].call = "save_filename"
               /\ RetNameField = Pad16(<<"/">> \o ToBase(calls[1].offset, 10))

\* a 16-character name was written in BSD format
C6_Witness ==
    /\ TobufReturnedBytes
    /\ last.format = BSD_FORMAT
    /\ Len(rec.name) = 16
    /\ RetNameField = rec.name

\* C7: tobuf(GNU) on a record with no container and a name longer than 15
\* characters raises EncodingError, returns nothing, and leaves the record,
\* the table and what the caller holds as they were.
C7_MissingContainer ==
    [][(/\ last'.op = "tobuf"
        /\ last'.format = GNU_FORMAT
        /\ rec._parent = None
        /\ Len(rec.name) > 15)
       => /\ last'.raised
          /\ last'.exc = "EncodingError"
          /\ last'.value = None
          /\ rec' = rec
          /\ table' = table
          /\ buf' = buf]_vars

\* tobuf(GNU) was called on a 17-character name with no container
C7_Witness ==
    /\ last.op = "tobuf"
    /\ last.format = GNU_FORMAT
    /\ rec._parent = None
    /\ Len(rec.name) = 17
    /\ last.raised
    /\ last.exc = "EncodingError"

\* C8: a buffer of at least 60 characters whose uid field holds a character
\* that is neither a decimal digit nor a space is rejected with the
\* HeaderError that names uid; no record is built.
C8_UidRejected ==
    (/\ FrombufOnText
     /\ Len(ArgText) >= 60
     /\ \E i \in 29..34 : ~IsDigit(ArgText[i], 10) /\ ArgText[i] # " ")
    => /\ last.raised
       /\ last.exc = "HeaderError"
       /\ last.kind = "invalid numeric field"
       /\ last.field = "uid"
       /\ info_obj = None

\* C9: tobuf with a format selector that is neither GNU_FORMAT nor
\* BSD_FORMAT raises EncodingError, and whatever tobuf returns is header
\* bytes.
C9_FailFast ==
    last.op = "tobuf"
    => /\ last.format \notin {GNU_FORMAT, BSD_FORMAT}
            => (last.raised /\ last.exc = "EncodingError")
       /\ ~last.raised => last.value.type = "bytes"

Saves(made) == {i \in 1..Len(made) : made[i].call = "save_filename"}

Reads(made) == {i \in 1..Len(made) : made[i].call = "read_filename"}

\* C10: the table grows only in a GNU-format tobuf of a name longer than 15
\* characters on a record with a container, by exactly one save_filename
\* call that appends the name; every other call leaves the table unchanged
\* and saves nothing; frombuf alone reads the table, and only when the
\* trimmed name field starts with '/'.
C10_TableFrame ==
    [][LET extended == /\ last'.op = "tobuf"
                       /\ last'.format = GNU_FORMAT
                       /\ Len(rec.name) > 15
                       /\ rec._parent = ArFile
       IN  /\ extended => /\ table' = Append(table, rec.name)
                          /\ Len(calls') = 1
                          /\ calls'[1].call = "save_filename"
                          /\ calls'[1].name = rec.name
           /\ ~extended => /\ table' = table
                           /\ Saves(calls') = {}
           /\ Reads(calls') # {}
                => /\ last'.op = "frombuf"
                   /\ last'.arg.type = "bytes"
                   /\ startswith(rstrip(Slice(Decode(last'.arg.data).text, 0, 16)), <<"/">>)
                   /\ Len(calls') = 1]_vars

\* the same record was encoded twice in GNU format and its long name is in
\* the table twice
C10_Witness ==
    /\ last.op = "tobuf"
    /\ last.format = GNU_FORMAT
    /\ Len(rec.name) > 15
    /\ Len(table) = 2
    /\ table[1] = rec.name
    /\ table[2] = rec.name

====
